---- MODULE Spec2Model ----
(***************************************************************************)
(* A model of locker-support: athdir.py (the Athdir path resolver) and     *)
(* locker.py (Locker.attach / Locker.detach on the /mit namespace, the     *)
(* attachtab table read by read_attachtab, and lookup of lockers, MUL      *)
(* lockers included, through Hesiod).                                      *)
(*                                                                         *)
(* Python strings are TLA+ strings; the str methods the code uses          *)
(* (startswith, in, replace, split, os.path.join) are operators over them. *)
(***************************************************************************)
EXTENDS Integers, Sequences, FiniteSets, TLC

VARIABLES
    ath,        \* the Athdir object: its attributes after __init__
    exists,     \* the paths for which os.path.exists is true
    call,       \* <<keyword arguments>> of the last get_paths call, <<>> before any
    rv,         \* what that call returned
    raised,     \* the exception that call raised, or "none"
    fs,         \* the filesystem entries attach and detach act on
    fs0,        \* the filesystem as it was when the last operation started
    op,         \* the last operation on a locker: its name, record and force flag
    err,        \* the exception that operation raised, or "none"
    optimized,  \* the interpreter runs with -O: assert statements are skipped
    tabfile,    \* the lines of /mit/.attachtab
    tab,        \* <<the attachtab read_attachtab returned>>, <<>> before any
    taberr,     \* the exception read_attachtab raised, or "none"
    hesiod,     \* the naming service: what FilsysLookup answers for each name
    looked,     \* <<name, outcome>> of the last lookup() call, <<>> before any
    callers,    \* the attach calls in progress: each caller's position and locals
    expansion   \* <<template, sys, key order, result>> of the last _expand call

avars == <<ath, exists, call, rv, raised>>
lvars == <<fs, fs0, op, err>>
tvars == <<optimized, tabfile, tab, taberr>>
hvars == <<hesiod, looked>>
cvars == <<callers>>
xvars == <<expansion>>

vars == <<ath, exists, call, rv, raised, fs, fs0, op, err,
          optimized, tabfile, tab, taberr, hesiod, looked, callers, expansion>>

----------------------------------------------------------------------------
(* Python str operations *)

\* str.startswith
StartsWith(s, p) == Len(s) >= Len(p) /\ SubSeq(s, 1, Len(p)) = p

\* the `sub in s` test on strings
Contains(s, sub) ==
    \E i \in 1..(Len(s) - Len(sub) + 1) : SubSeq(s, i, i + Len(sub) - 1) = sub

\* str.replace(k, v): left to right, non-overlapping, k non-empty
RECURSIVE Replace(_, _, _)
Replace(s, k, v) ==
    IF Len(s) < Len(k) THEN s
    ELSE IF SubSeq(s, 1, Len(k)) = k
         THEN v \o Replace(SubSeq(s, Len(k) + 1, Len(s)), k, v)
         ELSE SubSeq(s, 1, 1) \o Replace(SubSeq(s, 2, Len(s)), k, v)

\* str.split(sep, maxsplit) for a one-character sep; maxsplit < 0 is no limit
RECURSIVE SplitFrom(_, _, _, _)
SplitFrom(s, sep, maxsplit, cur) ==
    IF s = "" THEN <<cur>>
    ELSE IF SubSeq(s, 1, 1) = sep /\ maxsplit # 0
         THEN <<cur>> \o SplitFrom(SubSeq(s, 2, Len(s)), sep, maxsplit - 1, "")
         ELSE SplitFrom(SubSeq(s, 2, Len(s)), sep, maxsplit, cur \o SubSeq(s, 1, 1))

Split(s, sep, maxsplit) == SplitFrom(s, sep, maxsplit, "")

----------------------------------------------------------------------------
(* athdir.py *)

ARCH == "ARCH"
SYS == "SYS"
MACH == "MACH"
PLAIN == "PLAIN"

Flavors == <<ARCH, SYS, MACH, PLAIN>>

\* AthdirConvention.__init__
AthdirConvention(template, custom) ==
    LET atsys == Contains(template, "%s")
        arch  == Contains(template, "arch")
        mach  == Contains(template, "%m")
        sys   == atsys /\ ~Contains(template, "arch")
    IN  [template |-> template,
         atsys    |-> atsys,
         custom   |-> custom,
         flavors  |-> [f \in {ARCH, SYS, MACH, PLAIN} |->
                          CASE f = ARCH -> arch
                            [] f = MACH -> mach
                            [] f = SYS  -> sys
                            [] OTHER    -> ~(arch \/ mach \/ sys)]]

\* AthdirConvention.dependencyMatch
dependencyMatch(c, dependent) ==
    IF c.custom THEN TRUE ELSE dependent # c.flavors[PLAIN]

acceptableForNoCustom(c, listOfAcceptable) ==
    \E k \in 1..Len(listOfAcceptable) : c.flavors[listOfAcceptable[k]]

\* AthdirConvention.acceptableFor
acceptableFor(c, listOfAcceptable) ==
    IF c.custom THEN TRUE
    ELSE \E k \in 1..Len(listOfAcceptable) : c.flavors[listOfAcceptable[k]]

\* Athdir._indepTypes, _sysFlavors, _machFlavors
indepTypes == {"man", "include"}
sysFlavors == {"bin", "lib", "etc"}
machFlavors == {"bin", "lib", "etc"}

\* Athdir._conventions
BuiltinConventions ==
    << AthdirConvention("%p/arch/%s/%t", FALSE),
       AthdirConvention("%p/%s/%t", FALSE),
       AthdirConvention("%p/%m%t", FALSE),
       AthdirConvention("%p/%t", FALSE) >>

\* customTemplate=None
NoTemplate == "None"

flavorsAcceptablePlainAlways(dirType) ==
    <<ARCH>> \o (IF dirType \in sysFlavors THEN <<SYS>> ELSE <<>>)
             \o (IF dirType \in machFlavors THEN <<MACH>> ELSE <<>>)
             \o <<PLAIN>>

\* Athdir.__init__, the flavorsAcceptable list
flavorsAcceptableOf(dirType) ==
    LET a1 == <<ARCH>>
        a2 == IF dirType \in sysFlavors THEN Append(a1, SYS) ELSE a1
        a3 == IF dirType \in machFlavors THEN Append(a2, MACH) ELSE a2
        InList(f, l) == \E k \in 1..Len(l) : l[k] = f
    IN  IF ~InList(SYS, a3) /\ ~InList(MACH, a3) THEN Append(a3, PLAIN) ELSE a3

\* Athdir.__init__; syscompat is the value of ATHENA_SYS_COMPAT
AthdirInit(basePath, dirType, customTemplate, sysName, hostType, syscompat) ==
    [path              |-> basePath,
     dirType           |-> dirType,
     compatlist        |-> <<sysName>> \o Split(syscompat, ":", -1),
     hostType          |-> hostType,
     archDependent     |-> dirType \notin indepTypes,
     flavorsAcceptable |-> flavorsAcceptableOf(dirType),
     conventions       |-> IF customTemplate = NoTemplate
                           THEN BuiltinConventions
                           ELSE <<AthdirConvention(customTemplate, TRUE)>>
                                \o BuiltinConventions]

\* Athdir._expand: the replacements are applied one after the other, in the
\* order replacements.items() yields them: the order the dict literal lists
\* them on an interpreter whose dicts keep insertion order
ReplacementKeys == <<"%s", "%m", "%p", "%t">>

\* the orders a dict may yield its four keys in on other interpreters
KeyOrders ==
    {o \in [1..Len(ReplacementKeys) -> 1..Len(ReplacementKeys)] :
        \A i, j \in DOMAIN o : o[i] = o[j] => i = j}

ReplacementValue(self, sys, k) ==
    CASE k = "%s" -> sys
      [] k = "%m" -> self.hostType
      [] k = "%p" -> self.path
      [] k = "%t" -> self.dirType

\* the loop of _expand from the n-th key on, the keys taken in order o
RECURSIVE ExpandFrom(_, _, _, _, _)
ExpandFrom(self, r, sys, o, n) ==
    IF n > Len(ReplacementKeys) THEN r
    ELSE ExpandFrom(self,
                    Replace(r, ReplacementKeys[o[n]],
                            ReplacementValue(self, sys, ReplacementKeys[o[n]])),
                    sys, o, n + 1)

Expand(self, template, sys) ==
    ExpandFrom(self, template, sys, [i \in 1..Len(ReplacementKeys) |-> i], 1)

\* The values explored: the constructor's arguments and the environment
BasePaths == {"/usr"}
HostTypes == {"sparc"}
SysNames == {"sun4"}
AllDirTypes == {"bin", "lib", "etc", "man", "include", "share", "in", "%t"}
DirTypes == {"bin", "man", "share"}
CustomTemplates == {NoTemplate, "%p/%s/opt/%t"}
\* the values of ATHENA_SYS_COMPAT
CompatEnvs == {"sun3"}

\* _expand tabulated once over the values explored, so that a call looks an
\* expansion up instead of recomputing it
ExpandTable ==
    [k \in BasePaths \X HostTypes \X AllDirTypes
           \X (CustomTemplates \cup {BuiltinConventions[i].template : i \in 1..Len(BuiltinConventions)})
           \X (SysNames \cup UNION {{Split(e, ":", -1)[i] : i \in 1..Len(Split(e, ":", -1))} :
                                    e \in CompatEnvs}) |->
        Expand([path |-> k[1], hostType |-> k[2], dirType |-> k[3]], k[4], k[5])]
    @@ <<>>

expand(self, template, sys) ==
    ExpandTable[<<self.path, self.hostType, self.dirType, template, sys>>]

\* get_paths, lines 173-176: the checks on the keyword arguments
ValidateNoSearchCheck(opts) ==
    IF opts.forceDependent /\ opts.forceIndependent THEN "AthdirError" ELSE "none"

Validate(opts) ==
    IF opts.forceDependent /\ opts.forceIndependent THEN "AthdirError"
    ELSE IF (opts.forceDependent \/ opts.forceIndependent) /\ ~opts.suppressSearch
         THEN "AthdirError"
         ELSE "none"

\* get_paths, lines 178-183: a force flag is stored in self.archDependent
ForceDependence(self, opts) ==
    LET s1 == IF opts.forceDependent
              THEN [self EXCEPT !.archDependent = TRUE] ELSE self
    IN  IF opts.forceIndependent
        THEN [s1 EXCEPT !.archDependent = FALSE] ELSE s1

\* get_paths, lines 186-188: the test that lets a convention in
Considered(self, c, opts) ==
    \/ acceptableFor(c, self.flavorsAcceptable)
    \/ opts.suppressEditorials
    \/ ((opts.forceDependent \/ opts.forceIndependent) /\ opts.suppressSearch)

\* get_paths, lines 192-208: the loop over self.compatlist for convention c,
\* from index j on; done is TRUE when the loop body executed `return rv`
RECURSIVE ForCompatStopsAtFirst(_, _, _, _, _, _)
ForCompatStopsAtFirst(self, c, j, acc, opts, existing) ==
    IF j > Len(self.compatlist) THEN [rv |-> acc, done |-> FALSE]
    ELSE LET path == expand(self, c.template, self.compatlist[j])
         IN  IF opts.listAll \/ opts.suppressSearch
             THEN IF opts.suppressSearch
                  THEN [rv |-> Append(acc, path), done |-> TRUE]
                  ELSE [rv |-> Append(acc, path), done |-> FALSE]
             ELSE IF path \in existing
                  THEN [rv |-> Append(acc, path), done |-> TRUE]
                  ELSE [rv |-> acc, done |-> FALSE]

RECURSIVE ForCompatFrom(_, _, _, _, _, _)
ForCompatFrom(self, c, j, acc, opts, existing) ==
    IF j > Len(self.compatlist) THEN [rv |-> acc, done |-> FALSE]
    ELSE LET path == expand(self, c.template, self.compatlist[j])
         IN  IF opts.listAll \/ opts.suppressSearch
             THEN IF opts.suppressSearch
                  THEN [rv |-> Append(acc, path), done |-> TRUE]
                  ELSE IF ~c.atsys
                       THEN [rv |-> Append(acc, path), done |-> FALSE]
                       ELSE ForCompatFrom(self, c, j + 1, Append(acc, path),
                                          opts, existing)
             ELSE IF path \in existing
                  THEN [rv |-> Append(acc, path), done |-> TRUE]
                  ELSE IF ~c.atsys
                       THEN [rv |-> acc, done |-> FALSE]
                       ELSE ForCompatFrom(self, c, j + 1, acc, opts, existing)

ForCompat(self, c, acc, opts, existing) ==
    ForCompatFrom(self, c, 1, acc, opts, existing)

\* get_paths, lines 184-209: the loop over self.conventions, from index i on
RECURSIVE ForConventionsFrom(_, _, _, _, _)
ForConventionsFrom(self, i, acc, opts, existing) ==
    IF i > Len(self.conventions) THEN acc
    ELSE LET c == self.conventions[i]
         IN  IF Considered(self, c, opts)
             THEN IF opts.suppressSearch /\ ~dependencyMatch(c, self.archDependent)
                  THEN ForConventionsFrom(self, i + 1, acc, opts, existing)
                  ELSE LET r == ForCompat(self, c, acc, opts, existing)
                       IN  IF r.done THEN r.rv
                           ELSE ForConventionsFrom(self, i + 1, r.rv, opts, existing)
             ELSE ForConventionsFrom(self, i + 1, acc, opts, existing)

\* Athdir.get_paths: the object after the call, the list returned and the
\* exception raised
get_paths(self, opts, existing) ==
    IF Validate(opts) # "none"
    THEN [self |-> self, rv |-> <<>>, raised |-> Validate(opts)]
    ELSE LET s == ForceDependence(self, opts)
         IN  [self   |-> s,
              rv     |-> ForConventionsFrom(s, 1, <<>>, opts, existing),
              raised |-> "none"]

----------------------------------------------------------------------------
(* The resolvers and calls explored *)

MaxFiles == 2

Options ==
    [suppressEditorials : BOOLEAN, suppressSearch : BOOLEAN,
     forceDependent : BOOLEAN, forceIndependent : BOOLEAN, listAll : BOOLEAN]

\* every path some convention of the resolver expands to
CandidatePaths(self) ==
    { expand(self, self.conventions[i].template, self.compatlist[j]) :
        i \in 1..Len(self.conventions), j \in 1..Len(self.compatlist) }

\* a resolver constructed for a resource kind among kinds; no call made yet
Constructed(kinds) ==
    /\ \E basePath \in BasePaths, dirType \in kinds,
          customTemplate \in CustomTemplates, sysName \in SysNames,
          hostType \in HostTypes, syscompat \in CompatEnvs :
          ath = AthdirInit(basePath, dirType, customTemplate, sysName,
                           hostType, syscompat)
    /\ exists = {}
    /\ call = <<>>
    /\ rv = <<>>
    /\ raised = "none"

\* a call of get_paths with any keyword arguments
GetPaths ==
    /\ \E opts \in Options :
          LET r == get_paths(ath, opts, exists)
          IN  /\ ath' = r.self
              /\ rv' = r.rv
              /\ raised' = r.raised
              /\ call' = <<opts>>
    /\ UNCHANGED <<exists, lvars, tvars, hvars, cvars, xvars>>

\* the environment creates or removes a directory between calls
Mkdir ==
    /\ Cardinality(exists) < MaxFiles
    /\ \E p \in CandidatePaths(ath) \ exists : exists' = exists \cup {p}
    /\ UNCHANGED <<ath, call, rv, raised, lvars, tvars, hvars, cvars, xvars>>

Rmdir ==
    /\ \E p \in exists : exists' = exists \ {p}
    /\ UNCHANGED <<ath, call, rv, raised, lvars, tvars, hvars, cvars, xvars>>

----------------------------------------------------------------------------
(* locker.py: the filesystem calls attach and detach make *)

\* Python's None
None == "<None>"

NoEntry == [type |-> "none", target |-> ""]
Dir == [type |-> "dir", target |-> ""]
Link(t) == [type |-> "link", target |-> t]

\* os.path.dirname of an absolute path without a trailing slash
RECURSIVE Dirname(_)
Dirname(p) ==
    IF Len(p) <= 1 THEN "/"
    ELSE IF SubSeq(p, Len(p), Len(p)) = "/"
         THEN (IF Len(p) = 1 THEN "/" ELSE SubSeq(p, 1, Len(p) - 1))
         ELSE Dirname(SubSeq(p, 1, Len(p) - 1))

\* os.path.lexists
Lexists(fsys, p) == p \in DOMAIN fsys /\ fsys[p].type # "none"

\* the directory a new entry p goes into exists; directories outside the
\* modelled paths (/afs, /tmp) always do
ParentExists(fsys, p) ==
    Dirname(p) \notin DOMAIN fsys \/ fsys[Dirname(p)].type = "dir"

\* os.symlink(src, dst), run with permission to write the directory
os_symlink(fsys, src, dst) ==
    IF Lexists(fsys, dst) THEN [fs |-> fsys, errno |-> "EEXIST"]
    ELSE IF ~ParentExists(fsys, dst) \/ dst \notin DOMAIN fsys
         THEN [fs |-> fsys, errno |-> "ENOENT"]
         ELSE [fs |-> [fsys EXCEPT ![dst] = Link(src)], errno |-> "none"]

\* os.remove(p) and os.unlink(p): a directory is not removed
os_remove(fsys, p) ==
    IF ~Lexists(fsys, p) THEN [fs |-> fsys, errno |-> "ENOENT"]
    ELSE IF fsys[p].type = "dir" THEN [fs |-> fsys, errno |-> "EISDIR"]
         ELSE [fs |-> [fsys EXCEPT ![p] = NoEntry], errno |-> "none"]

\* os.path.realpath(p): the links at p are followed, at most n of them
RECURSIVE RealPathFrom(_, _, _)
RealPathFrom(fsys, p, n) ==
    IF n > 0 /\ p \in DOMAIN fsys /\ fsys[p].type = "link"
    THEN RealPathFrom(fsys, fsys[p].target, n - 1)
    ELSE p

realpath(fsys, p) == RealPathFrom(fsys, p, Cardinality(DOMAIN fsys))

----------------------------------------------------------------------------
(* locker.py: the Locker classes *)

\* _mountpoint
mountpointRoot == "/mit"

\* Locker.__init__ before parseData
LockerBase(type, name, data) ==
    [name |-> name, type |-> type, data |-> data, mountpoint |-> None,
     path |-> None, auth |-> None, server |-> None, authSupported |-> FALSE,
     authRequired |-> FALSE, authDesired |-> FALSE, raised |-> "none"]

\* LOCLocker.parseData
LOCparseData(self) ==
    LET parts == Split(self.data, " ", -1)
    IN  IF Len(parts) # 3 THEN [self EXCEPT !.raised = "NamedLockerError"]
        ELSE [self EXCEPT !.path = parts[1], !.mountpoint = parts[3],
                          !.auth = parts[2]]

\* AFSLocker.parseData
AFSparseData(self) ==
    LET parts == Split(self.data, " ", -1)
    IN  IF Len(parts) # 3 THEN [self EXCEPT !.raised = "NamedLockerError"]
        ELSE [self EXCEPT !.path = parts[1], !.mountpoint = parts[3],
                          !.auth = parts[2], !.authSupported = TRUE,
                          !.authRequired = (parts[2] = "w"),
                          !.authDesired = (parts[2] = "w" \/ parts[2] = "r")]

\* NFSLocker.parseData
NFSparseData(self) ==
    LET parts == Split(self.data, " ", -1)
    IN  IF Len(parts) # 4 THEN [self EXCEPT !.raised = "NamedLockerError"]
        ELSE [self EXCEPT !.path = parts[1], !.mountpoint = parts[4],
                          !.auth = parts[3], !.server = parts[2]]

\* _lockerTypes[type](name, data) for the classes that do not consult Hesiod;
\* type "" is the base class Locker, whose parseData does nothing. A MUL
\* locker is built by Construct below, which resolves its sublockers.
LockerNew(type, name, data) ==
    CASE type = "LOC" -> LOCparseData(LockerBase(type, name, data))
      [] type = "AFS" -> AFSparseData(LockerBase(type, name, data))
      [] type = "NFS" -> NFSparseData(LockerBase(type, name, data))
      [] OTHER        -> LockerBase(type, name, data)

IgnoreRealPath(fsys, self) ==
    IF ~(Lexists(fsys, self.mountpoint)
         /\ fsys[self.mountpoint] = Link(self.path))
    THEN [fs |-> fsys, err |-> "NamedLockerError: already attached"]
    ELSE [fs |-> fsys, err |-> "none"]

\* Locker.attach, lines 161-167: "Call it success if we're already attached"
AlreadyAttached(fsys, self) ==
    IF ~(realpath(fsys, self.mountpoint) = realpath(fsys, self.path))
    THEN [fs |-> fsys, err |-> "NamedLockerError: already attached"]
    ELSE [fs |-> fsys, err |-> "none"]

RECURSIVE attach(_, _, _)

OnEEXISTKeepsLink(fsys, self, force) == AlreadyAttached(fsys, self)

\* Locker.attach, lines 157-167: os.symlink raised EEXIST. An exception of
\* os.remove or of the inner self.attach() leaves the handler as it is
OnEEXIST(fsys, self, force) ==
    IF force
    THEN LET rm == os_remove(fsys, self.mountpoint)
         IN  IF rm.errno # "none" THEN [fs |-> fsys, err |-> "OSError"]
             ELSE LET again == attach(rm.fs, self, FALSE)
                  IN  IF again.err # "none" THEN again
                      ELSE AlreadyAttached(again.fs, self)
    ELSE AlreadyAttached(fsys, self)

\* Locker.attach(force=...): the filesystem after it and the exception raised
attach(fsys, self, force) ==
    IF self.mountpoint = None \/ self.path = None
    THEN [fs |-> fsys, err |-> "LockerNotSupportedError"]
    ELSE IF ~StartsWith(self.mountpoint, mountpointRoot)
    THEN [fs |-> fsys, err |-> "NamedLockerError: not under /mit"]
    ELSE LET r == os_symlink(fsys, self.path, self.mountpoint)
         IN  IF r.errno = "none" THEN [fs |-> r.fs, err |-> "none"]
             ELSE IF r.errno = "EEXIST" THEN OnEEXIST(fsys, self, force)
             ELSE [fs |-> fsys, err |-> "NamedLockerError: while attaching"]

\* Locker.detach
detach(fsys, self) ==
    IF self.mountpoint = None
    THEN [fs |-> fsys, err |-> "LockerNotSupportedError"]
    ELSE IF ~StartsWith(self.mountpoint, mountpointRoot)
    THEN [fs |-> fsys, err |-> "NamedLockerError: not under /mit"]
    ELSE LET r == os_remove(fsys, self.mountpoint)
         IN  IF r.errno # "none"
             THEN [fs |-> fsys, err |-> "NamedLockerError: while detaching"]
             ELSE [fs |-> r.fs, err |-> "none"]

\* NamedLockerError and its subclass LockerNotSupportedError
IsNamedLockerError(e) ==
    e \in {"NamedLockerError: already attached", "NamedLockerError: not under /mit",
           "NamedLockerError: while attaching", "NamedLockerError: while detaching",
           "LockerNotSupportedError"}

----------------------------------------------------------------------------
(* The lockers and filesystems explored *)

\* the records attach and detach are called on
LockerRecords ==
    << LockerNew("LOC", "a", "/afs/a n /mit/a"),
       LockerNew("AFS", "a2", "/afs/b w /mit/a"),
       LockerNew("LOC", "c", "/mit/a n /mit/c"),
       LockerNew("LOC", "x", "/afs/a n /mitx/a"),
       LockerNew("LOC", "t", "/afs/a n /tmp/a"),
       LockerNew("", "n", "") >>

FsPaths == {"/mit", "/mit/a", "/mit/c", "/mitx", "/mitx/a", "/tmp/a"}
LinkTargets == {"/afs/a", "/afs/b"}

NoOp == [name |-> "env", rec |-> 0, force |-> FALSE]

LockerInitial ==
    /\ fs = [p \in FsPaths |-> IF p = mountpointRoot THEN Dir ELSE NoEntry]
    /\ fs0 = fs
    /\ op = NoOp
    /\ err = "none"

\* a call of attach on one of the records
AttachOp ==
    /\ \E i \in 1..Len(LockerRecords), force \in BOOLEAN :
          LET r == attach(fs, LockerRecords[i], force)
          IN  /\ fs' = r.fs
              /\ err' = r.err
              /\ op' = [name |-> "attach", rec |-> i, force |-> force]
    /\ fs0' = fs
    /\ UNCHANGED <<avars, tvars, hvars, cvars, xvars>>

\* a call of detach on one of the records
DetachOp ==
    /\ \E i \in 1..Len(LockerRecords) :
          LET r == detach(fs, LockerRecords[i])
          IN  /\ fs' = r.fs
              /\ err' = r.err
              /\ op' = [name |-> "detach", rec |-> i, force |-> FALSE]
    /\ fs0' = fs
    /\ UNCHANGED <<avars, tvars, hvars, cvars, xvars>>

\* someone else makes a symlink or a directory, or removes an entry
EnvSymlink ==
    /\ \E p \in FsPaths \ {mountpointRoot, "/mitx"}, t \in LinkTargets :
          /\ os_symlink(fs, t, p).errno = "none"
          /\ fs' = os_symlink(fs, t, p).fs
    /\ fs0' = fs'
    /\ op' = NoOp
    /\ err' = "none"
    /\ UNCHANGED <<avars, tvars, hvars, cvars, xvars>>

EnvMkdir ==
    /\ \E p \in {"/mit/a", "/mitx"} :
          /\ ~Lexists(fs, p)
          /\ fs' = [fs EXCEPT ![p] = Dir]
    /\ fs0' = fs'
    /\ op' = NoOp
    /\ err' = "none"
    /\ UNCHANGED <<avars, tvars, hvars, cvars, xvars>>

EnvRemove ==
    /\ \E p \in FsPaths \ {mountpointRoot} :
          /\ Lexists(fs, p)
          /\ \A q \in FsPaths : Lexists(fs, q) => Dirname(q) # p
          /\ fs' = [fs EXCEPT ![p] = NoEntry]
    /\ fs0' = fs'
    /\ op' = NoOp
    /\ err' = "none"
    /\ UNCHANGED <<avars, tvars, hvars, cvars, xvars>>

----------------------------------------------------------------------------
(* locker.py: attachtab and read_attachtab *)

\* str.strip of blanks
RECURSIVE Strip(_)
Strip(s) ==
    IF s = "" THEN s
    ELSE IF SubSeq(s, 1, 1) = " " THEN Strip(SubSeq(s, 2, Len(s)))
    ELSE IF SubSeq(s, Len(s), Len(s)) = " " THEN Strip(SubSeq(s, 1, Len(s) - 1))
    ELSE s

\* os.path.join(a, b)
Join(a, b) ==
    IF StartsWith(b, "/") THEN b
    ELSE IF a = "" \/ SubSeq(a, Len(a), Len(a)) = "/" THEN a \o b
    ELSE a \o "/" \o b

\* the keys of _lockerTypes
LockerTypes == {"AFS", "NFS", "MUL", "LOC"}

\* A dict is the sequence of its items in insertion order.
DictHas(d, k) == \E i \in 1..Len(d) : d[i].key = k

DictGet(d, k) == d[CHOOSE i \in 1..Len(d) : d[i].key = k].value

\* d[k] = v: a key already there keeps its place
DictSet(d, k, v) ==
    IF DictHas(d, k)
    THEN [i \in 1..Len(d) |-> IF d[i].key = k THEN [key |-> k, value |-> v] ELSE d[i]]
    ELSE Append(d, [key |-> k, value |-> v])

\* the first item, in dict order, whose locker has the name
FirstNamed(d, name) ==
    CHOOSE i \in 1..Len(d) :
        /\ d[i].value.name = name
        /\ \A j \in 1..(i - 1) : d[j].value.name # name

\* attachtab.__contains__
contains(d, key) ==
    IF Contains(key, "/") THEN DictHas(d, key)
    ELSE \E i \in 1..Len(d) : d[i].value.name = key

\* attachtab.__getitem__: the locker found, or KeyError
getitem(d, key) ==
    IF Contains(key, "/")
    THEN IF DictHas(d, key) THEN [raised |-> "none", value |-> DictGet(d, key)]
         ELSE [raised |-> "KeyError", value |-> None]
    ELSE IF \E i \in 1..Len(d) : d[i].value.name = key
         THEN [raised |-> "none", value |-> d[FirstNamed(d, key)].value]
         ELSE [raised |-> "KeyError", value |-> None]

\* The answer of hesiod.FilsysLookup(name): the filsys list, or the errno of
\* the IOError it raises
Answer(filsys) == [errno |-> "none", filsys |-> filsys]

NotFound == [errno |-> "ENOENT", filsys |-> <<>>]

HesiodFailure == [errno |-> "EIO", filsys |-> <<>>]

Filsys(type, data) == [type |-> type, data |-> data]

\* resolve(name): the list of filesystems, or LockerError / LockerNotFoundError
resolve(hes, name) ==
    IF StartsWith(name, ".") THEN [rv |-> <<>>, raised |-> "LockerError"]
    ELSE LET ans == IF name \in DOMAIN hes THEN hes[name] ELSE NotFound
         IN  IF ans.errno = "ENOENT"
             THEN [rv |-> <<>>, raised |-> "LockerNotFoundError"]
             ELSE IF ans.errno # "none"
             THEN [rv |-> <<>>, raised |-> "LockerError"]
             ELSE [rv |-> ans.filsys, raised |-> "none"]

\* lookup, MULLocker.parseData and the constructors call one another
RECURSIVE lookup(_, _, _)
RECURSIVE MULparseData(_, _, _)
RECURSIVE Construct(_, _, _, _, _)

\* MULLocker.parseData, lines 342-343: the loop over the names in the data.
\* list.append(*lookup(l)) takes exactly one argument: TypeError otherwise
RECURSIVE SublockersFrom(_, _, _, _, _)
SublockersFrom(hes, depth, names, i, acc) ==
    IF i > Len(names) THEN [rv |-> acc, raised |-> "none"]
    ELSE LET l == lookup(hes, depth, names[i])
         IN  IF l.raised # "none" THEN [rv |-> acc, raised |-> l.raised]
             ELSE IF Len(l.rv) # 1 THEN [rv |-> acc, raised |-> "TypeError"]
             ELSE SublockersFrom(hes, depth, names, i + 1, Append(acc, l.rv[1]))

\* MULLocker.parseData
MULparseData(hes, depth, self) ==
    LET subs == SublockersFrom(hes, depth, Split(self.data, " ", -1), 1, <<>>)
    IN  [sublockers |-> subs.rv] @@ [self EXCEPT !.raised = subs.raised]

\* _lockerTypes[type](name, data), MULLocker included
Construct(hes, depth, type, name, data) ==
    IF type = "MUL" THEN MULparseData(hes, depth, LockerBase(type, name, data))
    ELSE LockerNew(type, name, data)

\* lookup, lines 371-376: the loop over the filesystems resolve returned
RECURSIVE LookupFrom(_, _, _, _, _, _)
LookupFrom(hes, depth, name, filesystems, i, lockers) ==
    IF i > Len(filesystems) THEN [rv |-> lockers, raised |-> "none"]
    ELSE LET f == filesystems[i]
         IN  IF f.type = "ERR"
             THEN [rv |-> <<>>, raised |-> "LockerUnavailableError"]
             ELSE IF f.type \notin LockerTypes
             THEN [rv |-> <<>>, raised |-> "LockerNotSupportedError"]
             ELSE LET l == Construct(hes, depth, f.type, name, f.data)
                  IN  IF l.raised # "none" THEN [rv |-> <<>>, raised |-> l.raised]
                      ELSE LookupFrom(hes, depth, name, filesystems, i + 1,
                                      Append(lockers, l))

\* lookup(name), called with room for depth more nested calls of lookup on
\* the interpreter's stack: with none left the call raises RecursionError,
\* which nothing on the way out catches
lookup(hes, depth, name) ==
    IF depth = 0 THEN [rv |-> <<>>, raised |-> "RecursionError"]
    ELSE LET filesystems == resolve(hes, name)
         IN  IF filesystems.raised # "none" THEN filesystems
             ELSE LookupFrom(hes, depth - 1, name, filesystems.rv, 1, <<>>)

\* LockerError and its subclasses
IsLockerError(e) ==
    IsNamedLockerError(e)
    \/ e \in {"LockerError", "NamedLockerError", "LockerNotFoundError",
              "LockerUnavailableError"}

\* the nested calls of lookup the interpreter's stack has room for
RecursionLimit == 3

\* read_attachtab, lines 460-472: one line of the file. An assert raises
\* AssertionError unless the interpreter runs with -O; without the asserts
\* the subscripts and the _lockerTypes lookup raise for themselves.
ReadLine(hes, d, rawline, mountpoint, noasserts) ==
    LET line  == Strip(rawline)
        parts == Split(line, ":", 2)
    IN  IF Len(line) = 0 THEN [rv |-> d, raised |-> "none"]
        ELSE IF ~noasserts /\ Len(parts) # 3
        THEN [rv |-> d, raised |-> "AssertionError"]
        ELSE IF ~noasserts /\ contains(d, parts[1])
        THEN [rv |-> d, raised |-> "AssertionError"]
        ELSE IF Len(parts) < 2
        THEN [rv |-> d, raised |-> "IndexError"]
        ELSE IF ~noasserts /\ parts[2] \notin LockerTypes
        THEN [rv |-> d, raised |-> "AssertionError"]
        ELSE IF parts[2] \notin LockerTypes
        THEN [rv |-> d, raised |-> "KeyError"]
        ELSE IF Len(parts) < 3
        THEN [rv |-> d, raised |-> "IndexError"]
        ELSE LET locker_mtpt == Join(mountpoint, parts[1])
                 locker      == Construct(hes, RecursionLimit, parts[2], parts[1], parts[3])
             IN  IF locker.raised # "none"
                 THEN [rv |-> d, raised |-> locker.raised]
                 ELSE [rv |-> DictSet(d, locker_mtpt, locker), raised |-> "none"]

\* read_attachtab, lines 459-472: the loop over the lines, from line n on
RECURSIVE ReadLinesFrom(_, _, _, _, _, _)
ReadLinesFrom(hes, d, lines, n, mountpoint, noasserts) ==
    IF n > Len(lines) THEN [rv |-> d, raised |-> "none"]
    ELSE LET r == ReadLine(hes, d, lines[n], mountpoint, noasserts)
         IN  IF r.raised # "none" THEN r
             ELSE ReadLinesFrom(hes, r.rv, lines, n + 1, mountpoint, noasserts)

\* read_attachtab(mountpoint) on a readable file
read_attachtab(hes, lines, mountpoint, noasserts) ==
    ReadLinesFrom(hes, <<>>, lines, 1, mountpoint, noasserts)

----------------------------------------------------------------------------
(* The attachtab files explored *)

MaxLines == 2

TabLines ==
    {"a:LOC:/afs/a n /mit/a",
     "b:AFS:/afs/b w /mit/b",
     "c:LOC:/afs/c n /mit/a",
     "b:NFS:/b srv n /mit/c",
     "m:MUL:a",
     "junk",
     "d:UFS:/afs/d n /mit/d",
     "d:LOC:/afs/d",
     ""}

\* the keys looked up in a table
TabKeys == {"a", "b", "c", "z", "/mit/a", "/mit/b", "/mit/c", "/mit/z"}

\* the names Hesiod is asked for, and what it may answer for a name: no
\* such name, a failure, one filesystem of some type, or a group of two
HesiodNames == {"m", "n", "a"}

HesiodAnswers ==
    {NotFound, HesiodFailure,
     Answer(<<Filsys("LOC", "/afs/a n /mit/a")>>),
     Answer(<<Filsys("MUL", "m")>>),
     Answer(<<Filsys("MUL", "n")>>),
     Answer(<<Filsys("MUL", "a n")>>),
     Answer(<<Filsys("ERR", "gone")>>),
     Answer(<<Filsys("UFS", "/u1 w /mit/u")>>),
     Answer(<<Filsys("LOC", "/afs/a n /mit/a"), Filsys("LOC", "/afs/b n /mit/a")>>)}

\* what Hesiod answers before anyone changes it: "a" is a LOC locker
HesiodInitial ==
    /\ hesiod = [n \in HesiodNames |->
                    IF n = "a" THEN Answer(<<Filsys("LOC", "/afs/a n /mit/a")>>)
                    ELSE NotFound]
    /\ looked = <<>>

\* the administrators change the record of a name; "a" stays as it is
HesiodUpdate ==
    /\ \E n \in HesiodNames \ {"a"}, ans \in HesiodAnswers :
          hesiod' = [hesiod EXCEPT ![n] = ans]
    /\ UNCHANGED <<looked, avars, lvars, tvars, cvars, xvars>>

\* a call lookup(name)
Lookup ==
    /\ \E name \in HesiodNames \cup {".m"} :
          LET r == lookup(hesiod, RecursionLimit, name)
          IN  looked' = << [name |-> name, rv |-> r.rv, raised |-> r.raised] >>
    /\ UNCHANGED <<hesiod, avars, lvars, tvars, cvars, xvars>>

AttachtabInitial ==
    /\ optimized \in BOOLEAN
    /\ tabfile = <<>>
    /\ tab = <<>>
    /\ taberr = "none"

\* attach appends a line to /mit/.attachtab
WriteLine ==
    /\ Len(tabfile) < MaxLines
    /\ \E l \in TabLines : tabfile' = Append(tabfile, l)
    /\ UNCHANGED <<optimized, tab, taberr, avars, lvars, hvars, cvars, xvars>>

\* a call of read_attachtab()
ReadAttachtab ==
    /\ LET r == read_attachtab(hesiod, tabfile, mountpointRoot, optimized)
       IN  /\ tab' = IF r.raised = "none" THEN <<r.rv>> ELSE <<>>
           /\ taberr' = r.raised
    /\ UNCHANGED <<optimized, tabfile, avars, lvars, hvars, cvars, xvars>>

----------------------------------------------------------------------------
(* Locker.attach called by two processes at once *)

\* the callers, and the record each one attaches: records 1 and 2 have the
\* mountpoint /mit/a and the paths /afs/a and /afs/b
Callers == {1, 2}

\* A caller is at one system call of attach: "symlink" (line 155), "remove"
\* (line 159), "again" (the symlink of the inner self.attach(), line 160),
\* "realpath" and "compare" (lines 162-163); inner says the caller is inside
\* the inner self.attach(). seen is what the realpath calls returned, err the
\* exception the call ended with, resolved what the mountpoint resolved to
\* when the call ended; alone says no other call ran since this one started.
Idle == [pc |-> "idle", force |-> FALSE, inner |-> FALSE, seen |-> <<>>,
         err |-> "none", resolved |-> None, alone |-> TRUE]

CallersInitial == callers = [c \in Callers |-> Idle]

Running(c) == callers[c].pc \notin {"idle", "done"}

\* caller c moves to state new; the calls in progress beside it are no
\* longer alone
Step(c, new) ==
    callers' = [d \in Callers |->
                   IF d = c THEN new
                   ELSE IF Running(d) THEN [callers[d] EXCEPT !.alone = FALSE]
                   ELSE callers[d]]

\* the call of caller c ends, by return (e = "none") or by exception e
Ended(c, fsys, e) ==
    [callers[c] EXCEPT !.pc = "done", !.err = e, !.inner = FALSE,
                       !.resolved = realpath(fsys, LockerRecords[c].mountpoint)]

PathsNeverDiffer(seen) == FALSE

\* lines 162-163: not os.path.realpath(mountpoint) == os.path.realpath(path)
PathsDiffer(seen) == ~(seen[1] = seen[2])

\* caller c calls attach(force=...) on its record; the checks of lines
\* 149-153 pass for the records of the callers
Call(c) ==
    /\ ~Running(c)
    /\ LockerRecords[c].mountpoint # None /\ LockerRecords[c].path # None
    /\ StartsWith(LockerRecords[c].mountpoint, mountpointRoot)
    /\ \E force \in BOOLEAN :
          Step(c, [Idle EXCEPT !.pc = "symlink", !.force = force,
                               !.alone = \A d \in Callers \ {c} : ~Running(d)])
    /\ UNCHANGED fs

\* os.symlink(self.path, self.mountpoint), in the outer or the inner attach
Symlink(c) ==
    /\ callers[c].pc \in {"symlink", "again"}
    /\ LET self == LockerRecords[c]
           r    == os_symlink(fs, self.path, self.mountpoint)
       IN  /\ fs' = r.fs
           /\ Step(c, IF r.errno = "none"
                      THEN IF callers[c].pc = "symlink" THEN Ended(c, r.fs, "none")
                           ELSE [callers[c] EXCEPT !.pc = "realpath"]
                      ELSE IF r.errno = "EEXIST"
                      THEN IF callers[c].pc = "symlink" /\ callers[c].force
                           THEN [callers[c] EXCEPT !.pc = "remove"]
                           ELSE [callers[c] EXCEPT !.pc = "realpath",
                                                   !.inner = (callers[c].pc = "again")]
                      ELSE Ended(c, fs, "NamedLockerError: while attaching"))

\* os.remove(self.mountpoint): its OSError leaves attach as it is
Remove(c) ==
    /\ callers[c].pc = "remove"
    /\ LET r == os_remove(fs, LockerRecords[c].mountpoint)
       IN  /\ fs' = r.fs
           /\ Step(c, IF r.errno # "none" THEN Ended(c, fs, "OSError")
                      ELSE [callers[c] EXCEPT !.pc = "again"])

\* the two os.path.realpath calls
RealPath(c) ==
    /\ callers[c].pc = "realpath"
    /\ Step(c, [callers[c] EXCEPT
                   !.pc = "compare",
                   !.seen = <<realpath(fs, LockerRecords[c].mountpoint),
                              realpath(fs, LockerRecords[c].path)>>])
    /\ UNCHANGED fs

\* the comparison: NamedLockerError, or return; the inner attach returns to
\* line 161 of the outer one
Compare(c) ==
    /\ callers[c].pc = "compare"
    /\ Step(c, IF PathsDiffer(callers[c].seen)
               THEN Ended(c, fs, "NamedLockerError: already attached")
               ELSE IF callers[c].inner
               THEN [callers[c] EXCEPT !.pc = "realpath", !.inner = FALSE]
               ELSE Ended(c, fs, "none"))
    /\ UNCHANGED fs

CallAttach == \E c \in Callers : Call(c) /\ UNCHANGED <<fs0, op, err, avars, tvars, hvars, xvars>>

DoSymlink == \E c \in Callers : Symlink(c) /\ UNCHANGED <<fs0, op, err, avars, tvars, hvars, xvars>>

DoRemove == \E c \in Callers : Remove(c) /\ UNCHANGED <<fs0, op, err, avars, tvars, hvars, xvars>>

DoRealPath == \E c \in Callers : RealPath(c) /\ UNCHANGED <<fs0, op, err, avars, tvars, hvars, xvars>>

DoCompare == \E c \in Callers : Compare(c) /\ UNCHANGED <<fs0, op, err, avars, tvars, hvars, xvars>>

----------------------------------------------------------------------------
(* Athdir._expand called on its own *)

\* constructor arguments that hold the text of a placeholder
ExpandBasePaths == {"/usr", "/%t"}
ExpandDirTypes == {"bin", "%s"}
ExpandSysNames == {"sun4", "%m"}

ExpandInitial == expansion = <<>>

ConstructedForExpand ==
    /\ \E basePath \in ExpandBasePaths, dirType \in ExpandDirTypes,
          customTemplate \in {NoTemplate}, sysName \in ExpandSysNames,
          hostType \in HostTypes, syscompat \in CompatEnvs :
          ath = AthdirInit(basePath, dirType, customTemplate, sysName,
                           hostType, syscompat)
    /\ exists = {}
    /\ call = <<>>
    /\ rv = <<>>
    /\ raised = "none"

\* a call self._expand(c.template, sys), as get_paths makes it for a
\* convention of the resolver and a name of its compatibility list
ExpandOp ==
    /\ \E i \in 1..Len(ath.conventions), j \in 1..Len(ath.compatlist),
          o \in KeyOrders :
          expansion' = << [template |-> ath.conventions[i].template,
                           sys      |-> ath.compatlist[j],
                           order    |-> o,
                           result   |-> ExpandFrom(ath, ath.conventions[i].template,
                                                   ath.compatlist[j], o, 1)] >>
    /\ UNCHANGED <<avars, lvars, tvars, hvars, cvars>>

----------------------------------------------------------------------------
(* Specifications *)

\* get_paths on resolvers for three kinds of resource, on a changing filesystem
InitAthdir == Constructed(DirTypes) /\ LockerInitial /\ AttachtabInitial /\ ~optimized
              /\ HesiodInitial /\ CallersInitial /\ ExpandInitial

NextAthdir == GetPaths \/ Mkdir \/ Rmdir

SpecAthdir == InitAthdir /\ [][NextAthdir]_vars

\* construction for every kind of resource, and get_paths on it
InitKinds == Constructed(AllDirTypes) /\ LockerInitial /\ AttachtabInitial /\ ~optimized
             /\ HesiodInitial /\ CallersInitial /\ ExpandInitial

NextKinds == GetPaths

SpecKinds == InitKinds /\ [][NextKinds]_vars

\* attach and detach, one call at a time, on a filesystem others change too
InitLocker == Constructed({"bin"}) /\ ath.conventions = BuiltinConventions
              /\ LockerInitial /\ AttachtabInitial /\ ~optimized
              /\ HesiodInitial /\ CallersInitial /\ ExpandInitial

NextLocker == AttachOp \/ DetachOp \/ EnvSymlink \/ EnvMkdir \/ EnvRemove

SpecLocker == InitLocker /\ [][NextLocker]_vars

\* read_attachtab on the files attach may have written
InitAttachtab == Constructed({"bin"}) /\ ath.conventions = BuiltinConventions
                 /\ LockerInitial /\ AttachtabInitial
                 /\ HesiodInitial /\ CallersInitial /\ ExpandInitial

NextAttachtab == WriteLine \/ ReadAttachtab

SpecAttachtab == InitAttachtab /\ [][NextAttachtab]_vars

\* _expand on resolvers whose attributes may hold the text of a placeholder
InitExpand == ConstructedForExpand /\ LockerInitial /\ AttachtabInitial /\ ~optimized
              /\ HesiodInitial /\ CallersInitial /\ ExpandInitial

NextExpand == ExpandOp

SpecExpand == InitExpand /\ [][NextExpand]_vars

\* lookup on a naming service whose records change
InitHesiod == Constructed({"bin"}) /\ ath.conventions = BuiltinConventions
              /\ LockerInitial /\ AttachtabInitial /\ ~optimized
              /\ HesiodInitial /\ CallersInitial /\ ExpandInitial

NextHesiod == HesiodUpdate \/ Lookup

SpecHesiod == InitHesiod /\ [][NextHesiod]_vars

\* two processes calling attach on the same mountpoint, their system calls
\* interleaved in any way
InitRace == Constructed({"bin"}) /\ ath.conventions = BuiltinConventions
            /\ LockerInitial /\ AttachtabInitial /\ ~optimized
            /\ HesiodInitial /\ CallersInitial /\ ExpandInitial

NextRace == CallAttach \/ DoSymlink \/ DoRemove \/ DoRealPath \/ DoCompare

SpecRace == InitRace /\ [][NextRace]_vars

----------------------------------------------------------------------------
(* What the specification says of get_paths, stated apart from the loops *)

\* the flavors the specification accepts for a kind of resource
SpecAcceptable(kind) ==
    {ARCH} \cup (IF kind \in {"bin", "lib", "etc"} THEN {SYS, MACH} ELSE {PLAIN})

\* the policy default of a kind, and the dependence a call asks for
PolicyDependent(kind) == kind \notin {"man", "include"}

EffectiveDependent(self, o) ==
    IF o.forceDependent THEN TRUE
    ELSE IF o.forceIndependent THEN FALSE
    ELSE PolicyDependent(self.dirType)

FlavorAcceptable(self, c) == \E f \in SpecAcceptable(self.dirType) : c.flavors[f]

\* the compatibility names a convention is expanded with
NamesOf(self, c) ==
    IF Contains(c.template, "%s") THEN 1..Len(self.compatlist) ELSE {1}

ExpansionsOf(self, c) ==
    [j \in NamesOf(self, c) |-> expand(self, c.template, self.compatlist[j])]

\* convention i with name j comes before convention k with name l
Before(g, h) == g[1] < h[1] \/ (g[1] = h[1] /\ g[2] < h[2])

\* the conventions are the custom one, if any, then ARCH, SYS, MACH, PLAIN
InSpecificityOrder(self) ==
    LET n == Len(self.conventions)
    IN  /\ n \in {4, 5}
        /\ n = 5 => self.conventions[1].custom
        /\ \A k \in 1..4 : /\ ~self.conventions[n - 4 + k].custom
                           /\ self.conventions[n - 4 + k].flavors[Flavors[k]]

FirstMatchMode(o) ==
    ~o.suppressSearch /\ ~o.listAll /\ ~o.forceDependent /\ ~o.forceIndependent

\* the <<convention, name>> pairs first-match mode scans that exist
ExistingScanned(self, o, existing) ==
    { h \in (1..Len(self.conventions)) \X (1..Len(self.compatlist)) :
        LET c == self.conventions[h[1]]
        IN  /\ c.custom \/ FlavorAcceptable(self, c) \/ o.suppressEditorials
            /\ h[2] \in NamesOf(self, c)
            /\ expand(self, c.template, self.compatlist[h[2]]) \in existing }

FirstMatchResult(self, o, existing, result) ==
    LET H == ExistingScanned(self, o, existing)
    IN  IF H = {} THEN result = <<>>
        ELSE \E h \in H :
                /\ \A g \in H : ~Before(g, h)
                /\ result = <<expand(self, self.conventions[h[1]].template,
                                     self.compatlist[h[2]])>>

\* C1: a get_paths call in first-match mode (no suppressSearch, no listAll, no
\* force flag) returns the first existing expansion, scanning the conventions
\* in list order and the compatibility names in list order within each, over
\* the conventions that are custom, flavor-acceptable or let in by
\* suppressEditorials; it returns the empty list iff none of these exists.
C1_FirstMatch ==
    [][ (call' # <<>> /\ exists' = exists /\ FirstMatchMode(call'[1]))
        => /\ raised' = "none"
           /\ InSpecificityOrder(ath)
           /\ FirstMatchResult(ath, call'[1], exists, rv') ]_vars

\* a "share" resolver, asked in first-match mode, returned the ARCH expansion
\* of the second compatibility name while the PLAIN directory exists too
C1_Witness ==
    /\ call # <<>> /\ FirstMatchMode(call[1]) /\ ~call[1].suppressEditorials
    /\ ath.dirType = "share"
    /\ exists = {expand(ath, "%p/arch/%s/%t", ath.compatlist[2]),
                 expand(ath, "%p/%t", ath.compatlist[1])}
    /\ rv = <<expand(ath, "%p/arch/%s/%t", ath.compatlist[2])>>

\* the conventions a call lists: custom, flavor-acceptable, let in by
\* suppressEditorials or by a force flag, and, with suppressSearch, matching
\* the dependence
Listed(self, c, o) ==
    /\ \/ c.custom
       \/ FlavorAcceptable(self, c)
       \/ o.suppressEditorials
       \/ o.forceDependent \/ o.forceIndependent
    /\ o.suppressSearch =>
          (c.custom \/ (self.archDependent = ~c.flavors[PLAIN]))

RECURSIVE AllExpansionsFrom(_, _, _)
AllExpansionsFrom(self, o, i) ==
    IF i > Len(self.conventions) THEN <<>>
    ELSE (IF Listed(self, self.conventions[i], o)
          THEN ExpansionsOf(self, self.conventions[i]) ELSE <<>>)
         \o AllExpansionsFrom(self, o, i + 1)

\* the expansions of a built-in template with every name, or with the first
Builtin(self, template) ==
    ExpansionsOf(self, [template |-> template])

CustomPart(self) ==
    IF self.conventions[1].custom
    THEN ExpansionsOf(self, self.conventions[1]) ELSE <<>>

\* C2 as stated: whenever listAll is passed, with suppressSearch or without,
\* the result holds every expansion of every considered convention.
C2_ListAllAlways ==
    (call # <<>> /\ raised = "none" /\ call[1].listAll)
    => rv = AllExpansionsFrom(ath, call[1], 1)

\* C2 as amended: when listAll is passed and suppressSearch is not, the result
\* holds every expansion of every considered convention, in convention order
\* then name order; for bin, lib and etc without suppressEditorials, the ARCH,
\* SYS and MACH expansions after those of the custom template, and no PLAIN.
C2_ListAllWithSearch ==
    (call # <<>> /\ raised = "none" /\ call[1].listAll /\ ~call[1].suppressSearch)
    => /\ rv = AllExpansionsFrom(ath, call[1], 1)
       /\ (ath.dirType \in {"bin", "lib", "etc"} /\ ~call[1].suppressEditorials)
          => rv = CustomPart(ath) \o Builtin(ath, "%p/arch/%s/%t")
                  \o Builtin(ath, "%p/%s/%t") \o Builtin(ath, "%p/%m%t")

\* a "bin" resolver with a custom template listed all its paths
C2_Witness ==
    /\ call # <<>> /\ raised = "none"
    /\ call[1].listAll /\ ~call[1].suppressSearch /\ ~call[1].suppressEditorials
    /\ ath.dirType = "bin" /\ ath.conventions[1].custom
    /\ Len(rv) = 3 * Len(ath.compatlist) + 1
    /\ rv[Len(rv)] = "/usr/sparcbin"

\* the convention suppressSearch picks: the first one considered whose
\* dependence is the one the call asks for
Picked(self, o, i) ==
    LET c == self.conventions[i]
    IN  /\ \/ c.custom
           \/ FlavorAcceptable(self, c)
           \/ o.suppressEditorials
           \/ o.forceDependent \/ o.forceIndependent
        /\ c.custom \/ (EffectiveDependent(self, o) = ~c.flavors[PLAIN])

\* C3: a valid get_paths call with suppressSearch, after any earlier calls,
\* returns exactly one path: the expansion with the first compatibility name
\* of the first convention that is considered and matches the effective
\* dependence (the forced one, else the policy default).
C3_SuppressSearchOnePath ==
    (call # <<>> /\ raised = "none" /\ call[1].suppressSearch)
    => \E i \in 1..Len(ath.conventions) :
          /\ Picked(ath, call[1], i)
          /\ \A k \in 1..(i - 1) : ~Picked(ath, call[1], k)
          /\ rv = <<expand(ath, ath.conventions[i].template, ath.compatlist[1])>>

\* C4: the dependence a get_paths call filters by is the forced one if the
\* call passes a force flag and the policy default of the kind otherwise,
\* whatever earlier calls passed.
C4_ForceIsPerCall ==
    (call # <<>> /\ raised = "none" /\ call[1].suppressSearch)
    => ath.archDependent = EffectiveDependent(ath, call[1])

\* C5: get_paths raises AthdirError iff both force flags are set or a force
\* flag is set without suppressSearch; it then returns nothing and leaves the
\* resolver as it was.
C5_ConfigurationError ==
    [][ (call' # <<>> /\ exists' = exists)
        => LET o == call'[1]
           IN  /\ raised' \in {"AthdirError", "none"}
               /\ (raised' = "AthdirError")
                  <=> \/ (o.forceDependent /\ o.forceIndependent)
                      \/ ((o.forceDependent \/ o.forceIndependent)
                          /\ ~o.suppressSearch)
               /\ raised' = "AthdirError" => (rv' = <<>> /\ ath' = ath) ]_vars

\* a call with one force flag and no suppressSearch was refused, with
\* suppressEditorials and listAll set and a directory present
C5_Witness ==
    /\ call # <<>> /\ raised = "AthdirError" /\ rv = <<>>
    /\ call[1].forceIndependent /\ ~call[1].forceDependent
    /\ ~call[1].suppressSearch
    /\ call[1].suppressEditorials /\ call[1].listAll
    /\ exists # {}

\* C6: at construction ARCH is acceptable; SYS and MACH are iff the kind is
\* bin, lib or etc; PLAIN is iff neither is; archDependent is false iff the
\* kind is man or include.
C6_Policy ==
    LET acc == {ath.flavorsAcceptable[k] : k \in 1..Len(ath.flavorsAcceptable)}
    IN  /\ ARCH \in acc
        /\ SYS \in acc <=> ath.dirType \in {"bin", "lib", "etc"}
        /\ MACH \in acc <=> ath.dirType \in {"bin", "lib", "etc"}
        /\ PLAIN \in acc <=> ~(SYS \in acc \/ MACH \in acc)
        /\ acc \subseteq {ARCH, SYS, MACH, PLAIN}
        /\ call = <<>> =>
              (ath.archDependent = FALSE <=> ath.dirType \in {"man", "include"})
        /\ ath.dirType \notin {"bin", "lib", "etc", "man", "include"} =>
              (acc = {ARCH, PLAIN} /\ (call = <<>> => ath.archDependent))

\* a resolver constructed for a kind no list names
C6_Witness ==
    /\ call = <<>>
    /\ ath.dirType = "in"
    /\ ath.archDependent
    /\ ath.flavorsAcceptable = <<ARCH, PLAIN>>

----------------------------------------------------------------------------
(* What the specification says of attach, detach and the attach table *)

\* the record the last operation was called on
OpRecord == LockerRecords[op.rec]

\* a record attach accepts: its path and mountpoint are set and the
\* mountpoint lies beneath /mit/
Attachable(r) ==
    r.path # None /\ r.mountpoint # None /\ StartsWith(r.mountpoint, "/mit/")

\* C7: attach(force=True), not interleaved with anything, of a record whose
\* mountpoint is a symlink (to another target, or, on a repeated call, to
\* record.path) returns without error and leaves the mountpoint a link to
\* record.path and every other entry as it was.
C7_ForceReplacesLink ==
    (op.name = "attach" /\ op.force /\ Attachable(OpRecord)
     /\ fs0[OpRecord.mountpoint].type = "link")
    => /\ err = "none"
       /\ fs = [fs0 EXCEPT ![OpRecord.mountpoint] = Link(OpRecord.path)]

\* attach(force=True) of locker a replaced a link /mit/a -> /afs/b
C7_Witness ==
    /\ op = [name |-> "attach", rec |-> 1, force |-> TRUE]
    /\ fs0["/mit/a"] = Link("/afs/b")
    /\ fs["/mit/a"] = Link("/afs/a")
    /\ err = "none"

\* C8: attach without force of a record whose mountpoint exists succeeds iff
\* the mountpoint resolves to the real path record.path resolves to, fails
\* with the 'already attached' NamedLockerError otherwise, and leaves the
\* filesystem as it was.
C8_ExistingMountpoint ==
    (op.name = "attach" /\ ~op.force /\ Attachable(OpRecord)
     /\ Lexists(fs0, OpRecord.mountpoint))
    => /\ err = "none" <=> realpath(fs0, OpRecord.mountpoint)
                             = realpath(fs0, OpRecord.path)
       /\ err # "none" => err = "NamedLockerError: already attached"
       /\ fs = fs0

\* attach of locker c (/mit/c -> /mit/a) succeeded on a link /mit/c -> /afs/a
\* because /mit/a is a link to /afs/a too
C8_Witness ==
    /\ op = [name |-> "attach", rec |-> 3, force |-> FALSE]
    /\ fs0["/mit/c"] = Link("/afs/a")
    /\ fs0["/mit/a"] = Link("/afs/a")
    /\ err = "none"
    /\ fs = fs0

\* C9: attach and detach of a record whose mountpoint is not beneath /mit/
\* fail with a NamedLockerError and change nothing in the filesystem.
C9_OutsideRootFails ==
    (op.name \in {"attach", "detach"} /\ OpRecord.mountpoint # None
     /\ ~StartsWith(OpRecord.mountpoint, "/mit/"))
    => /\ IsNamedLockerError(err)
       /\ fs = fs0

\* the lockers of a table have different names and different mountpoints
DistinctEntries(d) ==
    \A i, j \in 1..Len(d) :
        i # j => /\ d[i].value.name # d[j].value.name
                 /\ d[i].value.mountpoint # d[j].value.mountpoint

\* C10: in a table read from entries with distinct names and distinct
\* mountpoints, a locker is found under its name and under its own
\* mountpoint, a key that is no locker's name or mountpoint raises KeyError,
\* and `key in table` holds exactly when the lookup succeeds.
C10_LookupByNameAndMountpoint ==
    (tab # <<>> /\ DistinctEntries(tab[1]))
    => LET d == tab[1]
       IN  /\ \A i \in 1..Len(d) :
                 /\ getitem(d, d[i].value.name)
                      = [raised |-> "none", value |-> d[i].value]
                 /\ getitem(d, d[i].value.mountpoint)
                      = [raised |-> "none", value |-> d[i].value]
           /\ \A key \in TabKeys :
                 /\ (\A i \in 1..Len(d) : key # d[i].value.name
                                          /\ key # d[i].value.mountpoint)
                    => getitem(d, key).raised = "KeyError"
                 /\ contains(d, key) <=> getitem(d, key).raised = "none"

----------------------------------------------------------------------------
(* read_attachtab on a file with a malformed line *)

\* a line of the file that is not empty and not of the form mountname:KIND:data
\* with a KIND among AFS, NFS, LOC, MUL and as many fields of data as the
\* kind takes
Malformed(rawline) ==
    LET line  == Strip(rawline)
        parts == Split(line, ":", 2)
    IN  /\ line # ""
        /\ \/ Len(parts) < 3
           \/ parts[2] \notin {"AFS", "NFS", "LOC", "MUL"}
           \/ parts[2] \in {"AFS", "LOC"} /\ Len(Split(parts[3], " ", -1)) # 3
           \/ parts[2] = "NFS" /\ Len(Split(parts[3], " ", -1)) # 4

HasMalformedLine(lines) == \E i \in 1..Len(lines) : Malformed(lines[i])

\* C11: when a line of the attachtab file is malformed, read_attachtab raises
\* a LockerError and returns no table, whatever lines come before that line.
C11_MalformedLineIsLockerError ==
    [][ReadAttachtab /\ HasMalformedLine(tabfile)
         => IsLockerError(taberr') /\ tab' = <<>>]_vars

\* the part of C11 the code keeps: no table is returned, and the call raises
C11_MalformedLineFails ==
    [][ReadAttachtab /\ HasMalformedLine(tabfile)
         => taberr' # "none" /\ tab' = <<>>]_vars

----------------------------------------------------------------------------
(* Template expansion *)

\* the value the specification gives a placeholder
PlaceholderValue(self, sys, k) ==
    CASE k = "%s" -> sys
      [] k = "%m" -> self.hostType
      [] k = "%p" -> self.path
      [] k = "%t" -> self.dirType

\* the template with every placeholder in it replaced by its value, all at
\* once: the text put in is not looked at again
RECURSIVE Simultaneous(_, _, _)
Simultaneous(self, t, sys) ==
    IF t = "" THEN ""
    ELSE IF Len(t) >= 2 /\ SubSeq(t, 1, 2) \in {"%s", "%m", "%p", "%t"}
    THEN PlaceholderValue(self, sys, SubSeq(t, 1, 2))
         \o Simultaneous(self, SubSeq(t, 3, Len(t)), sys)
    ELSE SubSeq(t, 1, 1) \o Simultaneous(self, SubSeq(t, 2, Len(t)), sys)

\* C12: _expand replaces the four placeholders simultaneously, whatever the
\* values hold, so that text put in for one placeholder is never replaced
\* again; base /usr, type bin, sysname sun4 and machtype sparc expand the
\* first built-in convention to /usr/arch/sun4/bin.
C12_SimultaneousExpansion ==
    \A i \in 1..Len(expansion) :
        LET e == expansion[i]
        IN  /\ e.result = Simultaneous(ath, e.template, e.sys)
            /\ (/\ ath.path = "/usr" /\ ath.dirType = "bin"
                /\ ath.hostType = "sparc" /\ e.sys = "sun4"
                /\ e.template = BuiltinConventions[1].template)
               => e.result = "/usr/arch/sun4/bin"

\* the part of C12 the code keeps: values that hold no "%" are put in
\* place of the placeholders, in whatever order the keys are taken
C12_PlainValuesExpansion ==
    \A i \in 1..Len(expansion) :
        LET e == expansion[i]
        IN  (\A v \in {ath.path, ath.dirType, ath.hostType, e.sys} : ~Contains(v, "%"))
            => e.result = Simultaneous(ath, e.template, e.sys)

----------------------------------------------------------------------------
(* attach by two callers on one mountpoint *)

\* caller c's call of attach(force=True) has ended, and another call ran
\* while it did
Raced(c) ==
    /\ callers[c].pc = "done" /\ callers[c].force /\ ~callers[c].alone

\* the outcomes of a race: the named error, the removal error, and a return
\* while the mountpoint resolves elsewhere
RaceAlreadyAttached ==
    \E c \in Callers :
        Raced(c) /\ callers[c].err = "NamedLockerError: already attached"

RaceRemovalError == \E c \in Callers : Raced(c) /\ callers[c].err = "OSError"

RaceReturnsElsewhere ==
    \E c \in Callers :
        /\ Raced(c) /\ callers[c].err = "none"
        /\ callers[c].resolved # LockerRecords[c].path

\* C13: attach is not atomic. When no other call runs between the start and
\* the end of a call of attach, a call that returns without error returns
\* with the mountpoint resolving to its record's path; two interleaved calls
\* of attach(force=True) on one mountpoint may end otherwise (C13_Witness).
C13_SerializedAttach ==
    [][\A c \in Callers :
          (/\ Running(c) /\ callers[c].alone
           /\ callers'[c].pc = "done" /\ callers'[c].err = "none")
          => /\ realpath(fs', LockerRecords[c].mountpoint) = LockerRecords[c].path
             /\ callers'[c].resolved = LockerRecords[c].path]_vars

\* two calls of attach(force=True) ran at once, and one of them returned
\* without error while the mountpoint did not resolve to its record's path
C13_Witness ==
    \E c \in Callers :
        /\ Raced(c) /\ callers[c].err = "none"
        /\ callers[c].resolved # LockerRecords[c].path
        /\ \E d \in Callers \ {c} : callers[d].force /\ callers[d].pc # "idle"

----------------------------------------------------------------------------
(* lookup of MUL lockers *)

\* the names a MUL record of Hesiod lists
Members(hes, n) ==
    IF n \in DOMAIN hes /\ hes[n].errno = "none"
    THEN UNION {{Split(hes[n].filsys[i].data, " ", -1)[j] :
                    j \in 1..Len(Split(hes[n].filsys[i].data, " ", -1))} :
                i \in {k \in 1..Len(hes[n].filsys) : hes[n].filsys[k].type = "MUL"}}
    ELSE {}

\* the names reached from the names in S through at most k MUL records
RECURSIVE ReachedFrom(_, _, _)
ReachedFrom(hes, S, k) ==
    IF k = 0 THEN {}
    ELSE LET next == UNION {Members(hes, n) : n \in S}
         IN  next \cup ReachedFrom(hes, next, k - 1)

\* a MUL record lists its own name, or MUL records list each other in a cycle
Cyclic(hes) ==
    \E n \in DOMAIN hes : n \in ReachedFrom(hes, {n}, Cardinality(DOMAIN hes))

\* C14: whatever Hesiod holds, MUL records that list themselves or each other
\* included, lookup of a name ends with the lockers and their sublockers or
\* with a LockerError.
C14_LookupEndsInRecordOrLockerError ==
    \A i \in 1..Len(looked) :
        looked[i].raised = "none" \/ IsLockerError(looked[i].raised)

\* the same for the contents of Hesiod in which no MUL record leads back to
\* itself and no name a MUL record lists is a group: there the code keeps it
C14_AcyclicLookup ==
    [][Lookup /\ ~Cyclic(hesiod)
         => \A i \in 1..Len(looked') :
               \/ looked'[i].raised \in {"none", "TypeError"}
               \/ IsLockerError(looked'[i].raised)]_vars

====
